---- MODULE Spec2Model ----
(***************************************************************************)
(* Model of app.py (Nonagon - Manual Mode, Streamlit).                     *)
(*                                                                         *)
(* Strings are sequences of one-character strings.  The character written  *)
(* "sup2" stands for U+00B2 (superscript two): str.isdigit() accepts it,   *)
(* int() rejects it.  Python's None is the record None; a str value is     *)
(* Str(chars); a datetime is a record with year, month and day.  A call    *)
(* that can raise returns an outcome record: Return(v) or Raise(e).        *)
(***************************************************************************)
EXTENDS Integers, Sequences, FiniteSets, TLC

VARIABLES pc, submitted, dob_str, core_text, show_angle,
          dob, core, freq, top, fig, error, calls, arg, n, ret

vars == <<pc, submitted, dob_str, core_text, show_angle,
          dob, core, freq, top, fig, error, calls, arg, n, ret>>

(* ------------------------------ bounds -------------------------------- *)

\* sum_digits is run on every integer in -MaxN..MaxN
MaxN == 200
\* parse_core_list is run on every text over Alphabet of at most MaxLen characters
MaxLen == 4
\* frequency mappings hold counts in 1..MaxCount
MaxCount == 2
\* compute_core_numbers is run on every date of the years FirstYear..FirstYear+YearSpan
FirstYear == 1985
YearSpan == 8

(* --------------------------- Python values ---------------------------- *)

None == [type |-> "NoneType"]
Str(chars) == [type |-> "str", chars |-> chars]
Date(y, m, d) == [type |-> "datetime", year |-> y, month |-> m, day |-> d]
Return(v) == [raised |-> FALSE, value |-> v]
Raise(e) == [raised |-> TRUE, value |-> e]

\* Counter(): no keys
EmptyCounter == [k \in {} |-> 0]

(* ------------------------------ CONFIG -------------------------------- *)

SECTOR_ORDER == <<1, 3, 4, 9, 5, 8, 2, 7, 6>>

(* ------------------------------ HELPERS ------------------------------- *)

\* mutant: the digit sum is computed and n is left as it was
DigitSumBug(k) == k

\* sum(int(d) for d in str(n)), n >= 0
RECURSIVE DigitSum(_)
DigitSum(k) == IF k < 10 THEN k ELSE (k % 10) + DigitSum(k \div 10)

\* abs(int(n))
Abs(k) == IF k < 0 THEN -k ELSE k

\* mutant: while n > 10
LoopCondBug(k) == k > 10

\* while n > 9
LoopCond(k) == k > 9

\* sum_digits as a function: the value the loop returns
RECURSIVE Fold(_)
Fold(k) == IF LoopCond(k) THEN Fold(DigitSum(k)) ELSE k

sum_digits(k) == Fold(Abs(k))

(* ----------------------------- characters ----------------------------- *)

DecimalChars == {"0", "1", "2", "3", "4", "5", "6", "7", "8", "9"}

\* characters str.isdigit() accepts: the decimal digits and digit-like
\* characters such as superscript two
IsDigitChars == DecimalChars \cup {"sup2"}

\* characters str.strip() removes
Whitespace == {" ", "\t"}

\* int(c) of one decimal character
CharVal(c) ==
    CASE c = "0" -> 0 [] c = "1" -> 1 [] c = "2" -> 2 [] c = "3" -> 3
      [] c = "4" -> 4 [] c = "5" -> 5 [] c = "6" -> 6 [] c = "7" -> 7
      [] c = "8" -> 8 [] c = "9" -> 9

\* str.strip()
RECURSIVE LStrip(_)
LStrip(s) == IF s # <<>> /\ Head(s) \in Whitespace THEN LStrip(Tail(s)) ELSE s

RECURSIVE RStrip(_)
RStrip(s) ==
    IF s # <<>> /\ s[Len(s)] \in Whitespace
    THEN RStrip(SubSeq(s, 1, Len(s) - 1)) ELSE s

Strip(s) == RStrip(LStrip(s))

\* str.replace(old, new) for one-character old and new
Replace(s, old, new) == [i \in 1..Len(s) |-> IF s[i] = old THEN new ELSE s[i]]

\* str.split(sep) for a one-character sep: "" splits to [""], and n
\* separators give n + 1 tokens
RECURSIVE SplitFrom(_, _, _)
SplitFrom(s, sep, cur) ==
    IF s = <<>> THEN <<cur>>
    ELSE IF Head(s) = sep THEN <<cur>> \o SplitFrom(Tail(s), sep, <<>>)
    ELSE SplitFrom(Tail(s), sep, Append(cur, Head(s)))

Split(s, sep) == SplitFrom(s, sep, <<>>)

\* str.isdigit(): non-empty and every character a digit character
IsDigit(tok) == tok # <<>> /\ \A i \in 1..Len(tok) : tok[i] \in IsDigitChars

\* the value of a string of decimal characters
RECURSIVE DecimalValue(_)
DecimalValue(tok) ==
    IF tok = <<>> THEN 0
    ELSE 10 * DecimalValue(SubSeq(tok, 1, Len(tok) - 1)) + CharVal(tok[Len(tok)])

\* int(tok) for a token str.isdigit() accepted: ValueError on a character
\* that is no decimal digit
PyInt(tok) ==
    IF \A i \in 1..Len(tok) : tok[i] \in DecimalChars
    THEN Return(DecimalValue(tok))
    ELSE Raise("ValueError")

(* ------------------------------ parse_dob ----------------------------- *)

\* strptime's %d: 3[0-1] | [1-2]\d | 0[1-9] | [1-9] | " "[1-9]
DayField(f) ==
    \/ Len(f) = 2 /\ f[1] = "3" /\ f[2] \in {"0", "1"}
    \/ Len(f) = 2 /\ f[1] \in {"1", "2"} /\ f[2] \in DecimalChars
    \/ Len(f) = 2 /\ f[1] \in {"0", " "} /\ f[2] \in DecimalChars \ {"0"}
    \/ Len(f) = 1 /\ f[1] \in DecimalChars \ {"0"}

\* strptime's %m: 1[0-2] | 0[1-9] | [1-9]
MonthField(f) ==
    \/ Len(f) = 2 /\ f[1] = "1" /\ f[2] \in {"0", "1", "2"}
    \/ Len(f) = 2 /\ f[1] = "0" /\ f[2] \in DecimalChars \ {"0"}
    \/ Len(f) = 1 /\ f[1] \in DecimalChars \ {"0"}

\* strptime's %Y: \d\d\d\d
YearField(f) == Len(f) = 4 /\ \A i \in 1..4 : f[i] \in DecimalChars

IsLeap(y) == (y % 4 = 0 /\ y % 100 # 0) \/ y % 400 = 0

DaysInMonth(y, m) ==
    IF m = 2 THEN (IF IsLeap(y) THEN 29 ELSE 28)
    ELSE IF m \in {4, 6, 9, 11} THEN 30 ELSE 31

\* the dates datetime can hold of year y
ValidDate(y, m, d) ==
    y \in 1..9999 /\ m \in 1..12 /\ d \in 1..DaysInMonth(y, m)

\* datetime.strptime(dob_str.strip(), "%d/%m/%Y"), None on ValueError
parse_dob(s) ==
    LET f == Split(Strip(s.chars), "/")
    IN  IF Len(f) = 3 /\ DayField(f[1]) /\ MonthField(f[2]) /\ YearField(f[3])
        THEN LET y == DecimalValue(f[3])
                 m == DecimalValue(f[2])
                 d == DecimalValue(LStrip(f[1]))
             IN  IF ValidDate(y, m, d) THEN Date(y, m, d) ELSE None
        ELSE None

\* mutant: the check of the parsed date is missing
NotBug(v) == FALSE

\* `if not dob`: None is falsy, every datetime is truthy
Not(v) == v.type = "NoneType"

(* ------------------------ compute_core_numbers ------------------------ *)

\* mutant: the bridge is the year plus the personality, the year's digits
\* not summed
compute_core_numbersBug(d) ==
    IF d.type # "datetime" THEN Raise("AttributeError")
    ELSE LET total == d.day + d.month + d.year
             personality == sum_digits(total)
             bridge_double == d.year + personality
             life_value == sum_digits(bridge_double)
         IN  Return(<<personality, bridge_double, life_value>>)

\* None has no attribute day: AttributeError
compute_core_numbers(d) ==
    IF d.type # "datetime" THEN Raise("AttributeError")
    ELSE LET total == d.day + d.month + d.year
             personality == sum_digits(total)
             bridge_double == DigitSum(d.year) + personality
             life_value == sum_digits(bridge_double)
         IN  Return(<<personality, bridge_double, life_value>>)

(* --------------------------- parse_core_list -------------------------- *)

\* Counter(nums): a key for each value of nums, counting its occurrences
Counter(nums) ==
    [k \in {nums[i] : i \in 1..Len(nums)} |->
        Cardinality({i \in 1..Len(nums) : nums[i] = k})]

\* text or ""
OrEmpty(text) == IF text.type = "NoneType" THEN <<>> ELSE text.chars

\* mutant: "." is not made a separator
NormalizeBug(chars) == chars

\* text.replace(".", ",")
Normalize(chars) == Replace(chars, ".", ",")

\* if 1 <= n <= 9
InRange(k) == 1 <= k /\ k <= 9

\* the for loop over the tokens from index i on, nums being the list so
\* far: a ValueError of int(token) leaves the loop and the function
RECURSIVE TokenLoop(_, _, _)
TokenLoop(tokens, i, nums) ==
    IF i > Len(tokens) THEN Return(Counter(nums))
    ELSE LET token == Strip(tokens[i])
         IN  IF IsDigit(token)
             THEN LET r == PyInt(token)
                  IN  IF r.raised THEN r
                      ELSE IF InRange(r.value)
                           THEN TokenLoop(tokens, i + 1, Append(nums, r.value))
                           ELSE TokenLoop(tokens, i + 1, nums)
             ELSE TokenLoop(tokens, i + 1, nums)

parse_core_list(text) == TokenLoop(Split(Normalize(OrEmpty(text)), ","), 1, <<>>)

(* -------------------------- segments_by_order ------------------------- *)

\* mutant: freq.get(k, 1)
GetBug(f, k) == IF k \in DOMAIN f THEN f[k] ELSE 1

\* freq.get(k, 0)
Get(f, k) == IF k \in DOMAIN f THEN f[k] ELSE 0

\* mutant: the sectors are walked in numeric order
segments_by_orderBug(f) ==
    [i \in 1..Len(SECTOR_ORDER) |-> <<i, Get(f, i)>>]

segments_by_order(f) ==
    [i \in 1..Len(SECTOR_ORDER) |-> <<SECTOR_ORDER[i], Get(f, SECTOR_ORDER[i])>>]

(* ------------------------- top-3 by frequency ------------------------- *)

\* mutant: key=lambda x: (x[0], x[1])
SortKeyBug(x) == <<x[1], x[2]>>

\* key=lambda x: (x[0], -x[1]) of an item x = (cnt, n)
SortKey(x) == <<x[1], -x[2]>>

\* Python's order of two-element tuples of integers
TupleLess(a, b) == a[1] < b[1] \/ (a[1] = b[1] /\ a[2] < b[2])

\* sorted(items, key=SortKey, reverse=True): the items have distinct keys,
\* so the order is the one of strictly descending keys
RECURSIVE SortedReverse(_)
SortedReverse(items) ==
    IF items = {} THEN <<>>
    ELSE LET first == CHOOSE x \in items :
                        \A y \in items \ {x} : TupleLess(SortKey(y), SortKey(x))
         IN  <<first>> \o SortedReverse(items \ {first})

\* [(cnt, n) for n, cnt in freq.items()]
Items(f) == {<<f[k], k>> : k \in DOMAIN f}

\* [:3]
Take(s) == SubSeq(s, 1, IF Len(s) < 3 THEN Len(s) ELSE 3)

\* top = sorted([(cnt, n) ...], key=..., reverse=True)[:3]
Top(f) == Take(SortedReverse(Items(f)))

(* ---------------------------- draw_nonagon ---------------------------- *)

RECURSIVE Sum(_)
Sum(sizes) == IF sizes = <<>> THEN 0 ELSE Head(sizes) + Sum(Tail(sizes))

\* the figure: the placeholder text when no sector has a count, otherwise
\* the pie of the nine wedges with the centre ring and the annotations
draw_nonagon(f, show_angle_note) ==
    LET segs == segments_by_order(f)
        labels == [i \in 1..Len(segs) |-> segs[i][1]]
        sizes == [i \in 1..Len(segs) |-> segs[i][2]]
    IN  IF Sum(sizes) = 0
        THEN [kind |-> "placeholder"]
        ELSE [kind |-> "pie", labels |-> labels, sizes |-> sizes,
              angle_note |-> show_angle_note]

(* ------------------------------- inputs ------------------------------- *)

\* "1,7,1,7,7,5,5,2"
ExampleCommas == <<"1", ",", "7", ",", "1", ",", "7", ",", "7", ",", "5", ",", "5", ",", "2">>

\* "1.7.1.7.7.5.5.2"
ExampleDots == <<"1", ".", "7", ".", "1", ".", "7", ".", "7", ".", "5", ".", "5", ".", "2">>

\* "0,10,-3,abc, 5 ,"
ExampleDropped == <<"0", ",", "1", "0", ",", "-", "3", ",", "a", "b", "c", ",", " ", "5", " ", ",">>

\* ""
ExampleEmpty == <<>>

\* "9,9,8,8,7,7,6"
ExampleTies == <<"9", ",", "9", ",", "8", ",", "8", ",", "7", ",", "7", ",", "6">>

\* "3,(U+00B2)"
ExampleSuperscript == <<"3", ",", "sup2">>

\* "1,2,3,4,5,6,7,8,9"
ExampleFull == <<"1", ",", "2", ",", "3", ",", "4", ",", "5", ",", "6", ",", "7", ",", "8", ",", "9">>

ExampleTexts ==
    {ExampleCommas, ExampleDots, ExampleDropped, ExampleEmpty, ExampleTies,
     ExampleSuperscript, ExampleFull}

\* what the core list field of the form is filled with
CoreTexts == {Str(t) : t \in ExampleTexts}

Alphabet == {"1", "5", "0", ",", ".", " ", "-", "a", "sup2"}

\* every text over Alphabet of at most MaxLen characters
BoundedTexts ==
    UNION {[1..k -> Alphabet] : k \in 0..MaxLen}

\* the arguments parse_core_list is checked on: None, the bounded texts
\* and the examples
ParseInputs == {None} \cup {Str(t) : t \in BoundedTexts \cup ExampleTexts}

DayToks == {<<"1", "7">>, <<"7">>, <<"2", "9">>, <<"3", "1">>, <<"3", "2">>,
            <<"0">>, <<"x">>, <<>>}
MonthToks == {<<"0", "8">>, <<"2">>, <<"4">>, <<"1", "3">>, <<"0">>}
YearToks == {<<"1", "9", "9", "0">>, <<"2", "0", "0", "0">>,
             <<"1", "9", "0", "0">>, <<"0", "0", "0", "0">>, <<"9", "0">>,
             <<"1", "9", "9", "0", "1">>}

\* what the date field of the form is filled with: day, month and year
\* fields, well-formed or not, joined by "/" or "-", padded or not
DobStrings ==
    {Str(<<>>)} \cup
    {Str(p \o d \o <<sep>> \o m \o <<sep>> \o y \o p) :
        p \in {<<>>, <<" ">>}, d \in DayToks, sep \in {"/", "-"},
        m \in MonthToks, y \in YearToks}

\* the dates compute_core_numbers is checked on: every date of the years
\* FirstYear..FirstYear+YearSpan and of some years of other lengths
Years == (FirstYear..(FirstYear + YearSpan)) \cup {1, 99, 999, 2000, 9999}

Dates ==
    UNION {UNION {{Date(y, m, d) : d \in 1..DaysInMonth(y, m)} : m \in 1..12} :
           y \in Years}

\* the frequency mappings: sectors of 1..9 to counts in 1..MaxCount
FreqMaps == UNION {[S -> 1..MaxCount] : S \in SUBSET (1..9)}

(* ------------------------- the script, one run ------------------------ *)

\* the values no run has set
Cleared ==
    /\ submitted = FALSE /\ dob_str = Str(<<>>) /\ core_text = Str(<<>>)
    /\ show_angle = TRUE /\ dob = None /\ core = <<>> /\ freq = EmptyCounter
    /\ top = <<>> /\ fig = None /\ error = FALSE /\ calls = {}

\* no function under check by itself
NoCall == arg = None /\ n = 0 /\ ret = None

Init == pc = "form" /\ Cleared /\ NoCall

\* with st.form(...): the fields as the user left them, and whether the
\* button was pressed
Form ==
    /\ pc = "form"
    /\ \E d \in DobStrings, c \in CoreTexts, a \in BOOLEAN, b \in BOOLEAN :
          /\ dob_str' = d
          /\ core_text' = c
          /\ show_angle' = a
          /\ submitted' = b
    /\ pc' = "if_submitted"
    /\ UNCHANGED <<dob, core, freq, top, fig, error, calls, arg, n, ret>>

\* if submitted: is false
NotSubmitted ==
    /\ pc = "if_submitted"
    /\ ~submitted
    /\ pc' = "footer"
    /\ UNCHANGED <<submitted, dob_str, core_text, show_angle, dob, core, freq,
                   top, fig, error, calls, arg, n, ret>>

\* dob = parse_dob(dob_str)
ParseDob ==
    /\ pc = "if_submitted"
    /\ submitted
    /\ dob' = parse_dob(dob_str)
    /\ calls' = calls \cup {"parse_dob"}
    /\ pc' = "if_not_dob"
    /\ UNCHANGED <<submitted, dob_str, core_text, show_angle, core, freq,
                   top, fig, error, arg, n, ret>>

\* if not dob: st.error(...)
ShowError ==
    /\ pc = "if_not_dob"
    /\ Not(dob)
    /\ error' = TRUE
    /\ pc' = "footer"
    /\ UNCHANGED <<submitted, dob_str, core_text, show_angle, dob, core, freq,
                   top, fig, calls, arg, n, ret>>

\* else: personality, bridge_double, life_value = compute_core_numbers(dob)
ComputeCore ==
    /\ pc = "if_not_dob"
    /\ ~Not(dob)
    /\ calls' = calls \cup {"compute_core_numbers"}
    /\ LET r == compute_core_numbers(dob)
       IN  IF r.raised
           THEN pc' = "exception" /\ core' = core
           ELSE pc' = "parse_core_list" /\ core' = r.value
    /\ UNCHANGED <<submitted, dob_str, core_text, show_angle, dob, freq,
                   top, fig, error, arg, n, ret>>

\* freq = parse_core_list(core_text), and the st.write of the core numbers
ParseCoreList ==
    /\ pc = "parse_core_list"
    /\ calls' = calls \cup {"parse_core_list"}
    /\ LET r == parse_core_list(core_text)
       IN  IF r.raised
           THEN pc' = "exception" /\ freq' = freq
           ELSE pc' = "top" /\ freq' = r.value
    /\ UNCHANGED <<submitted, dob_str, core_text, show_angle, dob, core,
                   top, fig, error, arg, n, ret>>

\* top = sorted(...)[:3]
SelectTop ==
    /\ pc = "top"
    /\ calls' = calls \cup {"top"}
    /\ top' = Top(freq)
    /\ pc' = "draw_nonagon"
    /\ UNCHANGED <<submitted, dob_str, core_text, show_angle, dob, core, freq,
                   fig, error, arg, n, ret>>

\* fig = draw_nonagon(freq, show_angle_note=show_angle), and the tables
\* written after it
DrawNonagon ==
    /\ pc = "draw_nonagon"
    /\ calls' = calls \cup {"draw_nonagon"}
    /\ fig' = draw_nonagon(freq, show_angle)
    /\ pc' = "footer"
    /\ UNCHANGED <<submitted, dob_str, core_text, show_angle, dob, core, freq,
                   top, error, arg, n, ret>>

\* the footer, which ends the run
Footer ==
    /\ pc = "footer"
    /\ pc' = "end"
    /\ UNCHANGED <<submitted, dob_str, core_text, show_angle, dob, core, freq,
                   top, fig, error, calls, arg, n, ret>>

\* the next interaction runs the script again from its first line; a run
\* an exception ended is over as well
Rerun ==
    /\ pc \in {"end", "exception"}
    /\ pc' = "form"
    /\ submitted' = FALSE /\ dob_str' = Str(<<>>) /\ core_text' = Str(<<>>)
    /\ show_angle' = TRUE /\ dob' = None /\ core' = <<>>
    /\ freq' = EmptyCounter /\ top' = <<>> /\ fig' = None
    /\ error' = FALSE /\ calls' = {}
    /\ UNCHANGED <<arg, n, ret>>

Next ==
    \/ Form \/ NotSubmitted \/ ParseDob \/ ShowError \/ ComputeCore
    \/ ParseCoreList \/ SelectTop \/ DrawNonagon \/ Footer \/ Rerun

Spec == Init /\ [][Next]_vars

(* --------------------- sum_digits, statement by statement ------------- *)

InitSum ==
    /\ Cleared
    /\ pc = "sd_abs"
    /\ arg \in (-MaxN)..MaxN
    /\ n = arg
    /\ ret = None

\* n = abs(int(n))
SdAbs ==
    /\ pc = "sd_abs"
    /\ n' = Abs(n)
    /\ pc' = "sd_while"
    /\ UNCHANGED <<submitted, dob_str, core_text, show_angle, dob, core, freq,
                   top, fig, error, calls, arg, ret>>

\* while n > 9: n = sum(int(d) for d in str(n))
SdStep ==
    /\ pc = "sd_while"
    /\ LoopCond(n)
    /\ n' = DigitSum(n)
    /\ UNCHANGED <<pc, submitted, dob_str, core_text, show_angle, dob, core,
                   freq, top, fig, error, calls, arg, ret>>

\* return n
SdReturn ==
    /\ pc = "sd_while"
    /\ ~LoopCond(n)
    /\ ret' = n
    /\ pc' = "sd_done"
    /\ UNCHANGED <<submitted, dob_str, core_text, show_angle, dob, core, freq,
                   top, fig, error, calls, arg, n>>

NextSum == SdAbs \/ SdStep \/ SdReturn

\* a call that has started runs on: no statement of sum_digits waits
SpecSum == InitSum /\ [][NextSum]_vars /\ WF_vars(NextSum)

(* ------------------ the functions, each on its inputs ----------------- *)

InitCore == Cleared /\ pc = "call" /\ arg \in Dates /\ n = 0 /\ ret = None

CallComputeCoreNumbers ==
    /\ pc = "call"
    /\ ret' = compute_core_numbers(arg)
    /\ pc' = "returned"
    /\ UNCHANGED <<submitted, dob_str, core_text, show_angle, dob, core, freq,
                   top, fig, error, calls, arg, n>>

SpecCore == InitCore /\ [][CallComputeCoreNumbers]_vars

InitParse == Cleared /\ pc = "call" /\ arg \in ParseInputs /\ n = 0 /\ ret = None

CallParseCoreList ==
    /\ pc = "call"
    /\ ret' = parse_core_list(arg)
    /\ pc' = "returned"
    /\ UNCHANGED <<submitted, dob_str, core_text, show_angle, dob, core, freq,
                   top, fig, error, calls, arg, n>>

SpecParse == InitParse /\ [][CallParseCoreList]_vars

InitFreq == Cleared /\ pc = "call" /\ arg \in FreqMaps /\ n = 0 /\ ret = None

CallSegmentsByOrder ==
    /\ pc = "call"
    /\ ret' = segments_by_order(arg)
    /\ pc' = "projected"
    /\ UNCHANGED <<submitted, dob_str, core_text, show_angle, dob, core, freq,
                   top, fig, error, calls, arg, n>>

CallTop ==
    /\ pc = "call"
    /\ ret' = Top(arg)
    /\ pc' = "selected"
    /\ UNCHANGED <<submitted, dob_str, core_text, show_angle, dob, core, freq,
                   top, fig, error, calls, arg, n>>

NextFreq == CallSegmentsByOrder \/ CallTop

SpecFreq == InitFreq /\ [][NextFreq]_vars

(* ------------------------------ the claims ---------------------------- *)

\* the single digit congruent to k modulo 9 (9 for a positive multiple of
\* 9): what repeated digit summing of k >= 0 arrives at
DigitalRoot(k) == IF k = 0 THEN 0 ELSE 1 + ((k - 1) % 9)

\* the sum of the base-10 digits of a year of at most four digits
YearDigitSum(y) ==
    (y \div 1000) + ((y \div 100) % 10) + ((y \div 10) % 10) + (y % 10)

\* C1: for every valid date, compute_core_numbers returns (Personality,
\* BridgeValue, LifeValue) with Personality = reduce(day + month + year),
\* BridgeValue = digit sum of year + Personality, unreduced, and
\* LifeValue = reduce(BridgeValue); Personality and LifeValue are single
\* digits; (17, 8, 1990) yields (8, 27, 9).
C1_CoreNumbers ==
    pc = "returned" =>
        /\ ~ret.raised
        /\ LET personality == ret.value[1]
               bridge == ret.value[2]
               life == ret.value[3]
           IN  /\ Len(ret.value) = 3
               /\ personality = DigitalRoot(arg.day + arg.month + arg.year)
               /\ bridge = YearDigitSum(arg.year) + personality
               /\ life = DigitalRoot(bridge)
               /\ personality \in 0..9
               /\ life \in 0..9
        /\ (arg = Date(1990, 8, 17) => ret.value = <<8, 27, 9>>)

C1_Witness ==
    pc = "returned" /\ arg = Date(1990, 8, 17) /\ ret = Return(<<8, 27, 9>>)

\* the number of tokens of the text, split on "," after "." is replaced by
\* ",", whose trimmed form is decimal digits only and has the value s
TokenCount(text, s) ==
    LET chars == IF text.type = "NoneType" THEN <<>> ELSE text.chars
        tokens == Split(Replace(chars, ".", ","), ",")
    IN  Cardinality({i \in 1..Len(tokens) :
            LET t == Strip(tokens[i])
            IN  /\ t # <<>>
                /\ \A j \in 1..Len(t) : t[j] \in DecimalChars
                /\ DecimalValue(t) = s})

\* C2: for every text, parse_core_list returns a multiset in which the
\* count of each sector s of 1..9 is the number of tokens that are decimal
\* digits only, once trimmed, and have the value s; every other token is
\* silently discarded, and no key lies outside 1..9.
C2_ParseCounts ==
    pc = "returned" =>
        /\ ~ret.raised
        /\ DOMAIN ret.value \subseteq 1..9
        /\ \A s \in 1..9 : Get(ret.value, s) = TokenCount(arg, s)
        /\ \A s \in DOMAIN ret.value : ret.value[s] > 0

\* C2, on the texts parse_core_list returns for: the counts are the
\* token counts
C2_CountsWhenReturned ==
    (pc = "returned" /\ ~ret.raised) =>
        /\ DOMAIN ret.value \subseteq 1..9
        /\ \A s \in 1..9 : Get(ret.value, s) = TokenCount(arg, s)

\* C5: parse_core_list is total: for every text, the empty string, None
\* and tokens of signs, letters and superscript digits included, it
\* returns a multiset and raises nothing.
C5_ParseTotal == pc = "returned" => ~ret.raised

\* the texts that differ from text only in which of "." and "," stands at
\* each separator
SeparatorVariants(text) ==
    IF text.type = "NoneType" THEN {text}
    ELSE LET seps == {i \in 1..Len(text.chars) : text.chars[i] \in {".", ","}}
         IN  {Str([i \in 1..Len(text.chars) |->
                    IF i \in seps THEN c[i] ELSE text.chars[i]]) :
                c \in [seps -> {".", ","}]}

\* two calls ended the same way: the same multiset returned, or the same
\* error raised
SameOutcome(a, b) ==
    /\ a.raised = b.raised
    /\ a.raised => a.value = b.value
    /\ ~a.raised =>
          /\ DOMAIN a.value = DOMAIN b.value
          /\ \A k \in DOMAIN a.value : a.value[k] = b.value[k]

\* C8: separator equivalence: parse_core_list ends the same way, with the
\* same multiset, for a text and for the text with any of its "." written
\* "," or any of its "," written ".".
C8_SeparatorEquivalence ==
    pc = "returned" =>
        \A u \in SeparatorVariants(arg) : SameOutcome(parse_core_list(u), ret)

C8_Witness ==
    /\ pc = "returned"
    /\ arg = Str(ExampleDots)
    /\ ~ret.raised
    /\ ret.value = (1 :> 2 @@ 2 :> 1 @@ 5 :> 2 @@ 7 :> 3)
    /\ SameOutcome(parse_core_list(Str(ExampleCommas)), ret)
\* C3: for every frequency mapping, segments_by_order returns exactly 9
\* pairs whose sectors are 1,3,4,9,5,8,2,7,6 in this order, each with the
\* mapping's count of its sector, or 0 when the mapping has no such key.
C3_NinePairsInOrder ==
    pc = "projected" =>
        /\ Len(ret) = 9
        /\ [i \in 1..Len(ret) |-> ret[i][1]] = <<1, 3, 4, 9, 5, 8, 2, 7, 6>>
        /\ \A i \in 1..Len(ret) :
              /\ Len(ret[i]) = 2
              /\ ret[i][2] = IF ret[i][1] \in DOMAIN arg THEN arg[ret[i][1]] ELSE 0

C3_Witness ==
    /\ pc = "projected"
    /\ arg = (2 :> 1 @@ 7 :> 2)
    /\ ret = <<<<1, 0>>, <<3, 0>>, <<4, 0>>, <<9, 0>>, <<5, 0>>, <<8, 0>>,
               <<2, 1>>, <<7, 2>>, <<6, 0>>>>

\* the pairs put back into a mapping: a key for each sector emitted with a
\* count above 0, with the counts emitted for it added up
Reaggregate(pairs) ==
    [k \in {pairs[i][1] : i \in {j \in 1..Len(pairs) : pairs[j][2] > 0}} |->
        Sum([i \in 1..Len(pairs) |->
                IF pairs[i][1] = k THEN pairs[i][2] ELSE 0])]

\* the sum of a mapping's values
RECURSIVE SumValues(_)
SumValues(f) ==
    IF DOMAIN f = {} THEN 0
    ELSE LET k == CHOOSE x \in DOMAIN f : TRUE
         IN  f[k] + SumValues([x \in DOMAIN f \ {k} |-> f[x]])

\* C7: round trip: for every mapping of sectors of 1..9 to positive
\* counts, the 9 pairs of segments_by_order put back into a mapping are the
\* mapping itself, and the 9 counts add up to the sum of its values.
C7_RoundTrip ==
    pc = "projected" =>
        /\ Reaggregate(ret) = arg
        /\ Sum([i \in 1..Len(ret) |-> ret[i][2]]) = SumValues(arg)

C7_Witness ==
    /\ pc = "projected"
    /\ arg = (1 :> 2 @@ 2 :> 1 @@ 5 :> 2 @@ 7 :> 2)
    /\ Reaggregate(ret) = arg
    /\ Sum([i \in 1..Len(ret) |-> ret[i][2]]) = 7

\* what C4 says of the selection but for the order among equal counts: at
\* most 3 entries, each a sector of the mapping with its count, no sector
\* twice, and nothing when the mapping is empty
TopWellFormed ==
    /\ Len(ret) <= 3
    /\ \A i \in 1..Len(ret) :
          ret[i][2] \in DOMAIN arg /\ ret[i][1] = arg[ret[i][2]]
    /\ \A i, j \in 1..Len(ret) : i # j => ret[i][2] # ret[j][2]
    /\ (arg = EmptyCounter => ret = <<>>)

\* C4 as stated: the selection is ordered by count descending and, among
\* equal counts, by sector number descending.
C4_TiesBySectorDescending ==
    pc = "selected" =>
        /\ TopWellFormed
        /\ \A i, j \in 1..Len(ret) : i < j =>
              \/ ret[i][1] > ret[j][1]
              \/ ret[i][1] = ret[j][1] /\ ret[i][2] > ret[j][2]

\* C4, amended: the selection is ordered by count descending and, among
\* equal counts, by sector number ascending (the lower sector first).
C4_TiesBySectorAscending ==
    pc = "selected" =>
        /\ TopWellFormed
        /\ \A i, j \in 1..Len(ret) : i < j =>
              \/ ret[i][1] > ret[j][1]
              \/ ret[i][1] = ret[j][1] /\ ret[i][2] < ret[j][2]

C4_Witness ==
    /\ pc = "selected"
    /\ arg = (6 :> 1 @@ 7 :> 2 @@ 8 :> 2 @@ 9 :> 2)
    /\ ret = <<<<2, 7>>, <<2, 8>>, <<2, 9>>>>

\* C6: for every n >= 0, sum_digits(n) is in 0..9, and is n when n <= 9;
\* so it is idempotent.
C6_SingleDigit ==
    (pc = "sd_done" /\ arg >= 0) =>
        /\ ret \in 0..9
        /\ (arg <= 9 => ret = arg)
        /\ sum_digits(ret) = ret

C6_Witness == pc = "sd_done" /\ arg = 199 /\ ret = 1

\* C10: sum_digits terminates for every integer: a negative input is
\* first replaced by its absolute value, each iteration replaces a value
\* above 9 by a strictly smaller one, and the loop exits with a value in
\* 0..9.
C10_Terminates ==
    /\ <>(pc = "sd_done")
    /\ [](pc = "sd_done" => ret \in 0..9)
    /\ [][pc = "sd_abs" => n' = (IF n < 0 THEN -n ELSE n)]_vars
    /\ [][(pc = "sd_while" /\ pc' = "sd_while") => (n > 9 /\ 0 <= n' /\ n' < n)]_vars

C10_Witness == pc = "sd_done" /\ arg = -199 /\ n = 1 /\ ret = 1

Computing == {"compute_core_numbers", "parse_core_list", "top", "draw_nonagon"}

\* C9: on a submission whose date parse_dob returns None for, the error
\* is shown and nothing is computed: compute_core_numbers,
\* parse_core_list, the top-3 selection and draw_nonagon run only after
\* parse_dob has returned a valid date.
C9_NoComputationOnBadDate ==
    /\ (calls \cap Computing # {}) =>
          /\ "parse_dob" \in calls
          /\ dob.type = "datetime"
          /\ ValidDate(dob.year, dob.month, dob.day)
          /\ ~error
    /\ (submitted /\ "parse_dob" \in calls /\ dob.type = "NoneType") =>
          /\ calls = {"parse_dob"}
          /\ pc \in {"if_not_dob", "footer", "end"}
          /\ (pc # "if_not_dob" => error)
          /\ core = <<>> /\ freq = EmptyCounter /\ top = <<>> /\ fig = None

\* "32/08/1990"
C9_Witness ==
    /\ pc = "end"
    /\ submitted
    /\ dob_str = Str(<<"3", "2", "/", "0", "8", "/", "1", "9", "9", "0">>)
    /\ dob = None
    /\ error
    /\ calls = {"parse_dob"}

====
